---- MODULE Spec2Model ----
(***************************************************************************)
(* Model of the iQE050 BBQ controller web client.                          *)
(*                                                                         *)
(*   - BBQBluetooth (src/bluetooth.js, second class body, lines 248-663):  *)
(*     the connection session: connect() with its retry loop,              *)
(*     disconnect(), onDisconnected(), reconnect(), handleTelemetry(),     *)
(*     sendCommand().                                                      *)
(*   - BBQApp (src/app.js, third class body, lines 1684-2652): the connect *)
(*     button and the fuel monitor.                                        *)
(*                                                                         *)
(* An async function is a process: it runs from one await to the next in   *)
(* one atomic step (JavaScript runs a task to completion), and the         *)
(* resolution of the awaited promise is a separate step whose outcome      *)
(* (fulfilled / rejected) is chosen by the environment.                    *)
(***************************************************************************)
EXTENDS Integers, Sequences, FiniteSets, Bags, TLC

\* ------------------------------------------------------------------ bounds
MaxProcs == 2           \* connect()/reconnect() invocations suspended at once
MaxListeners == 2       \* 'gattserverdisconnected' listeners on the device object
MaxTimers == 1          \* pending setTimeout(() => this.reconnect(), 2000)
MaxUpdates == 3         \* estimator updates in one run
MaxWrites == 1          \* writeValueWithResponse calls awaiting their response
MaxInput == 402         \* the largest value a caller passes to an encoder
MaxReadings == 722      \* readings added to the temperature history in one run
MaxMinutes == 14        \* minutes of a stream in which the pit may hold or decline
DeclineMinutes == 35    \* minutes a steadily declining stream lasts

\* ------------------------------------------------------------- constants
Retries == 3            \* let retries = 3
FrameLength == 20       \* dataView.byteLength !== 20
MaxDataPoints == 720    \* this.maxDataPoints = 720

Null == "null"
Dev == "device"         \* the BluetoothDevice object requestDevice resolves with
Gatt == "gatt"          \* the BluetoothRemoteGATTServer gatt.connect() resolves with
Svc == "service"
TChar == "telemetryChar"
WChar == "writeChar"

FrameLengths == {19, 20, 21}    \* byteLength of the buffers the channel delivers
Opcodes == {1, 7}               \* opcodes the caller passes to sendCommand

VARIABLES
    bt,             \* the BBQBluetooth object: its fields and the last status it surfaced
    gattConnected,  \* device.gatt.connected
    listeners,      \* number of gattserverdisconnected listeners on the device object
    handlers,       \* characteristicvaluechanged listeners on the live telemetry characteristic
    pendingEvent,   \* a gattserverdisconnected event is queued, not yet dispatched
    procs,          \* the suspended connect()/reconnect() invocations (a bag)
    timers,         \* pending auto-reconnect timers, oldest first
    writes,         \* write operations in flight, each with the outcome still possible
    last,           \* the call or event handled last and its outcome (history variable)
    fuelMonitor,    \* BBQApp.fuelMonitor
    now,            \* Date.now() at the last estimator update, in ms
    fuelLevel,      \* the level the last estimator update displayed
    notified,       \* the last estimator update called showNotification
    updates,        \* estimator updates so far
    alerts,         \* low-fuel notifications the estimator has shown so far
    reading,        \* the reading the last estimator update was given
    call,           \* the codec function or handler called last, its input and its result
    tempHistory,    \* BBQApp.tempHistory
    worker          \* the service worker: its lifecycle phase and the URLs in its cache

btVars == <<bt, gattConnected, listeners, handlers, pendingEvent, procs, timers,
            writes, last>>

fuelVars == <<fuelMonitor, now, fuelLevel, notified, updates, alerts, reading>>

appVars == <<fuelVars, call, tempHistory, worker>>

vars == <<btVars, appVars>>

\* constructor; probe is history: how the authorization probe of the connect() called
\* last ended ("none": it has not ended, or was not made)
NewBluetooth ==
    [device |-> Null, server |-> Null, service |-> Null, telemetryChar |-> Null,
     writeChar |-> Null, connected |-> FALSE, intentionalDisconnect |-> FALSE,
     paired |-> FALSE, status |-> "none", message |-> "none", probe |-> "none"]

\* updateStatus(state, message): the status callback is set by the app at start.
\* status is the state last surfaced; message is the text that went with it when it
\* is one the claims tell apart (an error, 'Reconnecting...'), "" otherwise.
updateStatus(b, state, message) == [b EXCEPT !.status = state, !.message = message]

\* A suspended invocation: the await it is suspended at (pc), the locals of
\* connect() (retries, lastError), the outcome still possible for the awaited
\* operation (op), and history: channel-open calls made (opens), whether
\* disconnect() ran while it was in flight (disc).
NewProc(kind, pc, op) ==
    [kind |-> kind, pc |-> pc, retries |-> IF kind = "connect" THEN Retries ELSE 0,
     lastError |-> Null, op |-> op, opens |-> 0, disc |-> FALSE]

\* The history variable: op names the call or event handled last, res its outcome,
\* flag, n and m what the claims need to know about it (see each action).
Last(op, res, flag, n, m) == [op |-> op, res |-> res, flag |-> flag, n |-> n, m |-> m]

\* The invocations in flight are a bag of records: two invocations suspended at the
\* same await with the same locals are indistinguishable.
Active == BagToSet(procs)
InFlight == BagCardinality(procs)
One(pr) == SetToBag({pr})

RECURSIVE CopiesOf(_, _)
CopiesOf(B, X) ==
    IF X = {} THEN 0
    ELSE LET x == CHOOSE y \in X : TRUE IN B[x] + CopiesOf(B, X \ {x})

\* the bag of f[pr] for the invocations pr of bag B
MapProcs(f, B) ==
    [t \in {f[x] : x \in BagToSet(B)} |->
        CopiesOf(B, {x \in BagToSet(B) : f[x] = t})]

\* Outcome still possible for an operation on the channel.  gatt.connect() on a
\* connected server resolves ("must"); any other GATT operation started on a
\* disconnected server rejects ("fail"); otherwise the environment decides ("may").
ConnectOp(g) == IF g THEN "must" ELSE "may"
GattOp(g) == IF g THEN "may" ELSE "fail"
CanFulfil(op) == op \in {"may", "must"}
CanReject(op) == op \in {"may", "fail"}

\* A disconnection of the GATT server rejects every operation in flight on it.
AbortOp(pr) ==
    IF pr.pc \in {"gattConnect", "getPrimaryService", "getTelemetryChar",
                  "getWriteChar", "readValue", "startNotifications"}
    THEN [pr EXCEPT !.op = "fail"] ELSE pr

AbortOps(ps) == MapProcs([pr \in BagToSet(ps) |-> AbortOp(pr)], ps)


\* ------------------------------------------------- onDisconnected (sync)
\* c = [bt, timers]: the session object and the timer queue the handler may add to.

\* onDisconnected without the intentionalDisconnect test of line 399
OnDisconnected_IgnoringIntent(c) ==
    LET wasConnected == c.bt.connected
        b1 == updateStatus([c.bt EXCEPT !.connected = FALSE, !.server = Null,
                                        !.service = Null, !.telemetryChar = Null,
                                        !.writeChar = Null],
                           "disconnected", "Disconnected")
        auto == wasConnected /\ b1.device # Null
        b2 == IF auto THEN updateStatus(b1, "connecting", "Reconnecting...") ELSE b1
    IN  [bt |-> [b2 EXCEPT !.intentionalDisconnect = FALSE],
         timers |-> IF auto THEN Append(c.timers, FALSE) ELSE c.timers]

\* onDisconnected(), lines 389-405
OnDisconnected(c) ==
    LET wasConnected == c.bt.connected
        b1 == updateStatus([c.bt EXCEPT !.connected = FALSE, !.server = Null,
                                        !.service = Null, !.telemetryChar = Null,
                                        !.writeChar = Null],
                           "disconnected", "Disconnected")
        auto == wasConnected /\ b1.device # Null /\ ~b1.intentionalDisconnect
        b2 == IF auto THEN updateStatus(b1, "connecting", "Reconnecting...") ELSE b1
    IN  [bt |-> [b2 EXCEPT !.intentionalDisconnect = FALSE],
         timers |-> IF auto THEN Append(c.timers, FALSE) ELSE c.timers]

\* dispatch of one gattserverdisconnected event: every registered listener runs
RECURSIVE DispatchDisconnected(_, _)
DispatchDisconnected(c, n) ==
    IF n = 0 THEN c ELSE DispatchDisconnected(OnDisconnected(c), n - 1)

\* ------------------------------------------- connect() / reconnect() (async)
\* The code between two awaits runs on a context
\*   c = [bt, pr, gatt, handlers, done, ret]
\* bt the session object, pr the invocation, gatt device.gatt.connected, handlers the
\* notification listeners; done/ret say that the invocation returned and how.
Ctx(b, pr, g, h) ==
    [bt |-> b, pr |-> pr, gatt |-> g, handlers |-> h, done |-> FALSE, ret |-> FALSE]

\* suspend at the await named pc, on an operation whose possible outcome is op
Await(c, pc, op) == [c EXCEPT !.pr.pc = pc, !.pr.op = op]

\* catch (error) of connect(): the error (or the help text chosen from its message)
\* is surfaced with the 'disconnected' status; return false
ConnectCatch(c, error) ==
    [c EXCEPT !.bt = updateStatus(@, "disconnected", error), !.done = TRUE,
              !.ret = FALSE]

\* catch (error) of reconnect()
ReconnectCatch(c) ==
    [c EXCEPT !.bt = [updateStatus(@, "disconnected", "Reconnect failed - click Connect")
                        EXCEPT !.device = Null],
              !.done = TRUE, !.ret = FALSE]

Catch(c, error) ==
    IF c.pr.kind = "connect" THEN ConnectCatch(c, error) ELSE ReconnectCatch(c)

\* `Connected to ${this.device.name}` / `Reconnected to ${this.device.name}`
ConnectedTo(pr) ==
    IF pr.kind = "connect" THEN "Connected to device" ELSE "Reconnected to device"

\* after startNotifications() resolved: addEventListener on this.telemetryChar,
\* connected = true, then the status whose message reads this.device.name
Subscribed(c) ==
    IF c.bt.telemetryChar = Null THEN Catch(c, "TypeError")
    ELSE LET c1 == [c EXCEPT !.handlers = @ + 1, !.bt.connected = TRUE]
         IN  IF c1.bt.device = Null THEN Catch(c1, "TypeError")
             ELSE [c1 EXCEPT !.bt = updateStatus(@, "connected", ConnectedTo(c.pr)),
                             !.done = TRUE, !.ret = TRUE]

\* await this.telemetryChar.startNotifications()
StartNotifications(c) ==
    IF c.bt.telemetryChar = Null THEN Catch(c, "TypeError")
    ELSE Await(c, "startNotifications", GattOp(c.gatt))

\* this.telemetryChar = <resolved>; then the inner try that fetches the write
\* characteristic from this.service
GotTelemetryChar(c) ==
    LET c1 == [c EXCEPT !.bt.telemetryChar = TChar]
    IN  IF c1.bt.service = Null
        THEN StartNotifications([c1 EXCEPT !.bt.writeChar = Null])
        ELSE Await(c1, "getWriteChar", GattOp(c1.gatt))

\* this.writeChar = <resolved>; connect() then probes it with readValue()
GotWriteChar(c) ==
    LET c1 == [c EXCEPT !.bt.writeChar = WChar]
    IN  IF c.pr.kind = "connect" THEN Await(c1, "readValue", GattOp(c1.gatt))
        ELSE StartNotifications(c1)

\* catch (writeErr) / catch (e): this.writeChar = null
NoWriteChar(c) == StartNotifications([c EXCEPT !.bt.writeChar = Null])

\* this.service = <resolved>; await this.service.getCharacteristic(TELEMETRY_UUID)
GotService(c) ==
    Await([c EXCEPT !.bt.service = Svc], "getTelemetryChar", GattOp(c.gatt))

\* after the retry loop of connect(): if (!this.server) throw lastError || new
\* Error(...); else await this.server.getPrimaryService(SERVICE_UUID)
AfterRetryLoop(c) ==
    IF c.bt.server = Null
    THEN ConnectCatch(c, IF c.pr.lastError # Null THEN c.pr.lastError
                         ELSE "Failed to connect to GATT server")
    ELSE Await(c, "getPrimaryService", GattOp(c.gatt))

\* the error of the attempt that is failing: attempts are numbered 1..Retries
AttemptNo(pr) == Retries - pr.retries + 1
OpenError(pr) == <<"open failed 1", "open failed 2", "open failed 3">>[AttemptNo(pr)]
TypeErrorIn(pr) == <<"TypeError 1", "TypeError 2", "TypeError 3">>[AttemptNo(pr)]

\* `Retrying... (${retries} left)`
Retrying(pr) == <<"Retrying... (1 left)", "Retrying... (2 left)">>[pr.retries]

\* catch (error) inside the retry loop: lastError = error; retries--; if retries are
\* left, surface 'Retrying...' and wait 1000 ms; else leave the loop
AttemptFailed(c, error) ==
    LET c1 == [c EXCEPT !.pr.lastError = error, !.pr.retries = @ - 1]
    IN  IF c1.pr.retries > 0
        THEN Await([c1 EXCEPT !.bt = updateStatus(@, "connecting", Retrying(c1.pr))],
                   "backoff", "timer")
        ELSE AfterRetryLoop(c1)

\* one iteration of while (retries > 0): this.device.gatt.connect() is evaluated
\* inside the try, so a null this.device is caught like a failed attempt
Attempt(c) ==
    IF c.bt.device = Null THEN AttemptFailed(c, TypeErrorIn(c.pr))
    ELSE Await([c EXCEPT !.pr.opens = @ + 1], "gattConnect", ConnectOp(c.gatt))

\* this.server = <resolved>; break
GotServer(c) ==
    LET c1 == [c EXCEPT !.bt.server = Gatt, !.gatt = TRUE]
    IN  IF c.pr.kind = "connect" THEN AfterRetryLoop(c1)
        ELSE Await(c1, "getPrimaryService", GattOp(c1.gatt))

\* this.device = <resolved>; addEventListener; status; let retries = 3; first attempt
GotDevice(c) ==
    Attempt([c EXCEPT !.bt = updateStatus([@ EXCEPT !.device = Dev],
                                          "connecting", "Connecting to device..."),
                      !.pr.retries = Retries, !.pr.lastError = Null])

\* null, and a value that is not null
None == <<>>
Some(x) == <<x>>

\* service-worker.js: the precached URLs
urlsToCache ==
    {"index.html", "styles.css?v=7", "app.js?v=7", "bluetooth.js?v=7", "manifest.json"}

\* the service worker once app.js has registered it: nothing cached yet
NewWorker == [phase |-> "registered", cache |-> {}]

\* BBQApp constructor: this.tempHistory
NewTempHistory == [pit |-> <<>>, food1 |-> <<>>, food2 |-> <<>>, timestamps |-> <<>>]

\* BBQApp constructor: this.fuelMonitor
NewFuelMonitor ==
    [fanDutyHistory |-> <<>>, tempDropHistory |-> <<>>, lastPitTemp |-> None,
     lastCheckTime |-> None, lowFuelAlerted |-> FALSE]

\* --------------------------------------------------------------- actions
Init ==
    /\ bt = NewBluetooth
    /\ gattConnected = FALSE
    /\ listeners = 0
    /\ handlers = 0
    /\ pendingEvent = FALSE
    /\ procs = EmptyBag
    /\ timers = <<>>
    /\ writes = <<>>
    /\ last = Last("constructor", "", FALSE, 0, 0)
    /\ fuelMonitor = NewFuelMonitor
    /\ now = 0
    /\ fuelLevel = 100
    /\ notified = FALSE
    /\ updates = 0
    /\ alerts = 0
    /\ reading = None
    /\ call = None
    /\ tempHistory = NewTempHistory
    /\ worker = NewWorker

\* the state after the code of invocation pr ran from its await to the next one (or
\* to its return): a returned invocation is recorded in last (res: how it ended,
\* flag: disconnect() ran during it, n: channel-open calls it made, m: retries left)
Resume(pr, c) ==
    /\ bt' = c.bt
    /\ gattConnected' = c.gatt
    /\ handlers' = c.handlers
    /\ procs' = IF c.done THEN procs (-) One(pr) ELSE (procs (-) One(pr)) (+) One(c.pr)
    /\ UNCHANGED appVars
    /\ last' = IF c.done
               THEN Last(IF c.pr.kind = "connect" THEN "connect returned"
                         ELSE "reconnect returned",
                         IF c.ret THEN "ok" ELSE "failed", c.pr.disc, c.pr.opens,
                         c.pr.retries)
               ELSE Last("resume", "", FALSE, 0, 0)

Here(pr) == Ctx(bt, pr, gattConnected, handlers)

\* Channel operations complete in the order of the Bluetooth task source: a queued
\* gattserverdisconnected event is dispatched before any later completion.
At(pr, pc) == pr \in Active /\ pr.pc = pc /\ ~pendingEvent

Outcome(pr, ok) == IF ok THEN CanFulfil(pr.op) ELSE CanReject(pr.op)

\* connect(): status 'Scanning for devices...', await requestDevice(...)
Connect ==
    /\ InFlight < MaxProcs
    /\ bt' = [updateStatus(bt, "connecting", "Scanning for devices...")
                 EXCEPT !.probe = "none"]
    /\ procs' = procs (+) One(NewProc("connect", "requestDevice", "may"))
    /\ UNCHANGED appVars
    /\ last' = Last("connect called", "", FALSE, 0, 0)
    /\ UNCHANGED <<gattConnected, listeners, handlers, pendingEvent, timers, writes>>

\* requestDevice resolves with the device (the user picked it) or rejects
RequestDeviceResolved(p, ok) ==
    /\ At(p, "requestDevice")
    /\ IF ok
       THEN /\ listeners < MaxListeners
            /\ listeners' = listeners + 1
            /\ Resume(p, GotDevice(Here(p)))
       ELSE /\ listeners' = listeners
            /\ Resume(p, ConnectCatch(Here(p), "User cancelled"))
    /\ UNCHANGED <<pendingEvent, timers, writes>>

\* device.gatt.connect() resolves or rejects (connect() and reconnect())
GattConnectResolved(p, ok) ==
    /\ At(p, "gattConnect")
    /\ Outcome(p, ok)
    /\ IF ok THEN Resume(p, GotServer(Here(p)))
       ELSE IF p.kind = "connect"
            THEN Resume(p, AttemptFailed(Here(p), OpenError(p)))
            ELSE Resume(p, ReconnectCatch(Here(p)))
    /\ UNCHANGED <<listeners, pendingEvent, timers, writes>>

\* the 1000 ms backoff of the retry loop elapsed
BackoffElapsed(p) ==
    /\ p \in Active
    /\ p.pc = "backoff"
    /\ Resume(p, Attempt(Here(p)))
    /\ UNCHANGED <<listeners, pendingEvent, timers, writes>>

GetPrimaryServiceResolved(p, ok) ==
    /\ At(p, "getPrimaryService")
    /\ Outcome(p, ok)
    /\ Resume(p, IF ok THEN GotService(Here(p)) ELSE Catch(Here(p), "NetworkError"))
    /\ UNCHANGED <<listeners, pendingEvent, timers, writes>>

GetTelemetryCharResolved(p, ok) ==
    /\ At(p, "getTelemetryChar")
    /\ Outcome(p, ok)
    /\ Resume(p, IF ok THEN GotTelemetryChar(Here(p)) ELSE Catch(Here(p), "NetworkError"))
    /\ UNCHANGED <<listeners, pendingEvent, timers, writes>>

GetWriteCharResolved(p, ok) ==
    /\ At(p, "getWriteChar")
    /\ Outcome(p, ok)
    /\ Resume(p, IF ok THEN GotWriteChar(Here(p)) ELSE NoWriteChar(Here(p)))
    /\ UNCHANGED <<listeners, pendingEvent, timers, writes>>

\* the authorization probe as it would be if its failure reached the outer catch
ReadValueResolved_Fatal(p, ok) ==
    /\ At(p, "readValue")
    /\ Outcome(p, ok)
    /\ Resume(p, IF ok
                 THEN StartNotifications([Here(p) EXCEPT !.bt.paired = TRUE,
                                                         !.bt.probe = "ok"])
                 ELSE Catch([Here(p) EXCEPT !.bt.probe = "failed"], "NetworkError"))
    /\ UNCHANGED <<listeners, pendingEvent, timers, writes>>

\* the authorization probe: this.paired = true when the read succeeds; a failure is
\* logged only
ReadValueResolved(p, ok) ==
    /\ At(p, "readValue")
    /\ Outcome(p, ok)
    /\ Resume(p, StartNotifications(IF ok
                                    THEN [Here(p) EXCEPT !.bt.paired = TRUE,
                                                         !.bt.probe = "ok"]
                                    ELSE [Here(p) EXCEPT !.bt.probe = "failed"]))
    /\ UNCHANGED <<listeners, pendingEvent, timers, writes>>

StartNotificationsResolved(p, ok) ==
    /\ At(p, "startNotifications")
    /\ Outcome(p, ok)
    /\ Resume(p, IF ok THEN Subscribed(Here(p)) ELSE Catch(Here(p), "NetworkError"))
    /\ UNCHANGED <<listeners, pendingEvent, timers, writes>>

\* history: disconnect() ran while these invocations / timers were outstanding
MarkProc(pr) == [pr EXCEPT !.disc = TRUE]

MarkDisconnect(ps) == MapProcs([pr \in BagToSet(ps) |-> MarkProc(pr)], ps)

MarkTimers(ts) == [i \in 1..Len(ts) |-> TRUE]

\* a disconnection of the GATT server fails the writes in flight
FailWrites(ws) == [i \in 1..Len(ws) |-> [ws[i] EXCEPT !.op = "fail"]]

\* what disconnect() leaves of the session object after the gatt.disconnect() branch
DisconnectFields(b) ==
    updateStatus([b EXCEPT !.connected = FALSE, !.device = Null, !.server = Null,
                           !.service = Null, !.telemetryChar = Null, !.writeChar = Null],
                 "disconnected", "Disconnected")

\* disconnect().  When the device is set and its GATT server connected,
\* gatt.disconnect() closes the channel and provokes a gattserverdisconnected event,
\* dispatched to the listeners inside the call (sync) or queued (~sync).
Disconnect(sync) ==
    LET b0 == [bt EXCEPT !.intentionalDisconnect = TRUE]
        live == b0.device # Null /\ gattConnected
        c == IF live /\ sync
             THEN DispatchDisconnected([bt |-> b0, timers |-> timers], listeners)
             ELSE [bt |-> b0, timers |-> timers]
    IN  /\ ~pendingEvent
        /\ live \/ sync
        /\ Len(c.timers) <= MaxTimers
        /\ bt' = DisconnectFields(c.bt)
        /\ timers' = MarkTimers(c.timers)
        /\ gattConnected' = FALSE
        /\ handlers' = IF live THEN 0 ELSE handlers
        /\ pendingEvent' = (live /\ ~sync)
        /\ procs' = MarkDisconnect(IF live THEN AbortOps(procs) ELSE procs)
        /\ writes' = IF live THEN FailWrites(writes) ELSE writes
        /\ UNCHANGED appVars
        /\ last' = Last("disconnect",
                        IF ~live THEN "no channel" ELSE IF sync THEN "sync" ELSE "queued",
                        bt.connected, Len(timers), 0)
        /\ UNCHANGED listeners

\* the channel drops: device.gatt.connected becomes false, the operations in flight
\* are rejected and gattserverdisconnected is dispatched to every listener
UnsolicitedDisconnect ==
    LET c == DispatchDisconnected([bt |-> bt, timers |-> timers], listeners)
    IN  /\ gattConnected
        /\ ~pendingEvent
        /\ Len(c.timers) <= MaxTimers
        /\ bt' = c.bt
        /\ timers' = c.timers
        /\ gattConnected' = FALSE
        /\ handlers' = 0
        /\ procs' = AbortOps(procs)
        /\ writes' = FailWrites(writes)
        /\ UNCHANGED appVars
        /\ last' = Last("drop", IF Len(c.timers) > Len(timers) THEN "reconnect scheduled"
                                ELSE "no reconnect",
                        bt.connected, Len(timers), 0)
        /\ UNCHANGED <<listeners, pendingEvent>>

\* the queued gattserverdisconnected event of a disconnect() is dispatched
DispatchPendingEvent ==
    LET c == DispatchDisconnected([bt |-> bt, timers |-> timers], listeners)
    IN  /\ pendingEvent
        /\ Len(c.timers) <= MaxTimers
        /\ bt' = c.bt
        /\ timers' = c.timers
        /\ pendingEvent' = FALSE
        /\ UNCHANGED appVars
        /\ last' = Last("queued event",
                        IF Len(c.timers) > Len(timers) THEN "reconnect scheduled"
                        ELSE "no reconnect",
                        bt.connected, Len(timers), 0)
        /\ UNCHANGED <<gattConnected, listeners, handlers, procs, writes>>

\* the 2000 ms timer of onDisconnected fires: reconnect() runs to its first await
TimerFired ==
    /\ timers # <<>>
    /\ timers' = Tail(timers)
    /\ IF bt.device = Null
       THEN /\ bt' = updateStatus(bt, "disconnected",
                                  "Device lost - please reconnect manually")
            /\ procs' = procs
            /\ UNCHANGED appVars
            /\ last' = Last("reconnect returned", "device lost", Head(timers), 0, 0)
       ELSE /\ InFlight < MaxProcs
            /\ bt' = bt
            /\ procs' = procs (+) One([NewProc("reconnect", "gattConnect",
                                               ConnectOp(gattConnected))
                                         EXCEPT !.opens = 1, !.disc = Head(timers)])
            /\ UNCHANGED appVars
            /\ last' = Last("reconnect called", "", Head(timers), 0, 0)
    /\ UNCHANGED <<gattConnected, listeners, handlers, pendingEvent, writes>>

\* the guard of sendCommand without its writeChar test
NotConnected_FlagOnly(b) == ~b.connected

\* the guard of sendCommand: !this.connected || !this.writeChar
NotConnected(b) == ~b.connected \/ b.writeChar = Null

\* sendCommand(command, value): throws 'Not connected to device' before any write
\* unless connected and a write characteristic is held
SendCommand(command) ==
    /\ IF NotConnected(bt)
       THEN /\ writes' = writes
            /\ UNCHANGED appVars
            /\ last' = Last("sendCommand", "Not connected to device", FALSE, command, 0)
       ELSE /\ Len(writes) < MaxWrites
            /\ writes' = Append(writes, [command |-> command, op |-> GattOp(gattConnected)])
            /\ UNCHANGED appVars
            /\ last' = Last("sendCommand", "writing", FALSE, command, 0)
    /\ UNCHANGED <<bt, gattConnected, listeners, handlers, pendingEvent, procs, timers>>

\* writeValueWithResponse resolves (this.paired = true; return true) or rejects
\* (the error is rethrown to the caller)
WriteResolved(i, ok) ==
    /\ i \in 1..Len(writes)
    /\ ~pendingEvent
    /\ IF ok THEN CanFulfil(writes[i].op) ELSE CanReject(writes[i].op)
    /\ writes' = [j \in 1..(Len(writes) - 1) |-> IF j < i THEN writes[j] ELSE writes[j + 1]]
    /\ bt' = IF ok THEN [bt EXCEPT !.paired = TRUE] ELSE bt
    /\ UNCHANGED appVars
    /\ last' = Last("write", IF ok THEN "ok" ELSE "error", FALSE, writes[i].command, 0)
    /\ UNCHANGED <<gattConnected, listeners, handlers, pendingEvent, procs, timers>>

\* handleTelemetry accepting longer buffers too
HandleTelemetry_AtLeast(byteLength) == byteLength >= FrameLength

\* handleTelemetry(dataView): whether the buffer is decoded and handed to
\* onDataCallback
HandleTelemetry(byteLength) == byteLength = FrameLength

\* the channel notifies a buffer: every characteristicvaluechanged listener calls
\* handleTelemetry; last.n counts the readings handed to the data subscriber, last.m
\* is the buffer's length
DeliverFrame(byteLength) ==
    /\ gattConnected
    /\ handlers > 0
    /\ UNCHANGED appVars
    /\ last' = Last("frame", IF HandleTelemetry(byteLength) THEN "published" ELSE "dropped",
                    FALSE, IF HandleTelemetry(byteLength) THEN handlers ELSE 0,
                    byteLength)
    /\ UNCHANGED <<bt, gattConnected, listeners, handlers, pendingEvent, procs, timers,
                   writes>>

\* The session driven through its methods: connect() and disconnect() may be called
\* at any time.  Commands and telemetry are left to IoSpec.
Next ==
    \/ Connect
    \/ \E p \in Active, ok \in BOOLEAN : RequestDeviceResolved(p, ok)
    \/ \E p \in Active, ok \in BOOLEAN : GattConnectResolved(p, ok)
    \/ \E p \in Active : BackoffElapsed(p)
    \/ \E p \in Active, ok \in BOOLEAN : GetPrimaryServiceResolved(p, ok)
    \/ \E p \in Active, ok \in BOOLEAN : GetTelemetryCharResolved(p, ok)
    \/ \E p \in Active, ok \in BOOLEAN : GetWriteCharResolved(p, ok)
    \/ \E p \in Active, ok \in BOOLEAN : ReadValueResolved(p, ok)
    \/ \E p \in Active, ok \in BOOLEAN : StartNotificationsResolved(p, ok)
    \/ \E sync \in BOOLEAN : Disconnect(sync)
    \/ UnsolicitedDisconnect
    \/ DispatchPendingEvent
    \/ TimerFired

Spec == Init /\ [][Next]_vars

\* The connect button of the app: disconnect() when this.bluetooth.connected, else
\* connect()
ConnectButton ==
    IF bt.connected THEN \E sync \in BOOLEAN : Disconnect(sync) ELSE Connect

\* The session driven by the app alone: the button is the only caller of connect()
\* and disconnect().
AppNext ==
    \/ ConnectButton
    \/ \E p \in Active, ok \in BOOLEAN : RequestDeviceResolved(p, ok)
    \/ \E p \in Active, ok \in BOOLEAN : GattConnectResolved(p, ok)
    \/ \E p \in Active : BackoffElapsed(p)
    \/ \E p \in Active, ok \in BOOLEAN : GetPrimaryServiceResolved(p, ok)
    \/ \E p \in Active, ok \in BOOLEAN : GetTelemetryCharResolved(p, ok)
    \/ \E p \in Active, ok \in BOOLEAN : GetWriteCharResolved(p, ok)
    \/ \E p \in Active, ok \in BOOLEAN : ReadValueResolved(p, ok)
    \/ \E p \in Active, ok \in BOOLEAN : StartNotificationsResolved(p, ok)
    \/ UnsolicitedDisconnect
    \/ DispatchPendingEvent
    \/ TimerFired

AppSpec == Init /\ [][AppNext]_vars

\* Commands and telemetry, with a caller that has one connect() or reconnect() in
\* flight at a time.
IoNext ==
    \/ (InFlight = 0 /\ timers = <<>> /\ Connect)
    \/ \E p \in Active, ok \in BOOLEAN : RequestDeviceResolved(p, ok)
    \/ \E p \in Active, ok \in BOOLEAN : GattConnectResolved(p, ok)
    \/ \E p \in Active : BackoffElapsed(p)
    \/ \E p \in Active, ok \in BOOLEAN : GetPrimaryServiceResolved(p, ok)
    \/ \E p \in Active, ok \in BOOLEAN : GetTelemetryCharResolved(p, ok)
    \/ \E p \in Active, ok \in BOOLEAN : GetWriteCharResolved(p, ok)
    \/ \E p \in Active, ok \in BOOLEAN : ReadValueResolved(p, ok)
    \/ \E p \in Active, ok \in BOOLEAN : StartNotificationsResolved(p, ok)
    \/ \E sync \in BOOLEAN : Disconnect(sync)
    \/ UnsolicitedDisconnect
    \/ DispatchPendingEvent
    \/ (InFlight = 0 /\ TimerFired)
    \/ \E command \in Opcodes : SendCommand(command)
    \/ \E i \in 1..MaxWrites, ok \in BOOLEAN : WriteResolved(i, ok)
    \/ \E byteLength \in FrameLengths : DeliverFrame(byteLength)

IoSpec == Init /\ [][IoNext]_vars

\* --------------------------------------------------- BBQApp: fuel estimator
\* A JavaScript number that need not be an integer is kept as the exact fraction n/d;
\* d = 0 is the result of a division by zero (Infinity, -Infinity or NaN by n's sign).
Frac(n, d) == [n |-> n, d |-> d]

Min(a, b) == IF a < b THEN a ELSE b
Max(a, b) == IF a > b THEN a ELSE b

RECURSIVE SumN(_, _)
SumN(f, n) == IF n = 0 THEN 0 ELSE f[n] + SumN(f, n - 1)

RECURSIVE Gcd(_, _)
Gcd(a, b) == IF b = 0 THEN a ELSE Gcd(b, a % b)

Lcm(a, b) == (a * b) \div Gcd(a, b)

RECURSIVE LcmN(_, _)
LcmN(f, n) == IF n = 0 THEN 1 ELSE Lcm(f[n], LcmN(f, n - 1))

\* the readings handleTelemetry hands over: pitTemp is a 16-bit value (999 = probe
\* disconnected), pitSet the raw byte 10, fanSpeed the low three bits of byte 9
PitTemps == {225, 230, 999}
PitSets == {0, 255}
FanSpeeds == {0, 5}
Readings == [pitTemp : PitTemps, pitSet : PitSets, fanSpeed : FanSpeeds]

\* time between two estimator updates, in ms (whole minutes, so that the minutes
\* elapsed are an integer): the same timestamp, one minute, 31 minutes
Steps == {0, 60000, 1860000}

\* updateFuelMonitor: const targetTemp = data.pitSet - 145
FuelTargetTemp(data) == data.pitSet - 145

\* fanDutyPercent; (diff / 50) * 100 is 2 * diff
FanDutyPercent(data) ==
    IF data.fanSpeed = 0
    THEN IF data.pitTemp # 999 /\ data.pitSet > 0
         THEN LET targetTemp == FuelTargetTemp(data)
                  diff == targetTemp - data.pitTemp
              IN  Frac(Max(0, Min(100, 2 * diff + 30)), 1)
         ELSE Frac(0, 1)
    ELSE Frac(data.fanSpeed * 100, 7)

\* avgFanDuty > percent; every duty is a fraction over 1 or over 7
AvgFanDutyAbove(h, percent) ==
    IF Len(h) > 0
    THEN SumN([i \in 1..Len(h) |-> h[i].duty.n * (7 \div h[i].duty.d)], Len(h))
            > percent * 7 * Len(h)
    ELSE 0 > percent

\* what the sum of the rates is: a finite number, or what JavaScript makes of the
\* divisions by zero among them
SumClass(h) ==
    LET zero == {i \in 1..Len(h) : h[i].rate.d = 0}
        nan == \E i \in zero : h[i].rate.n = 0
        pos == \E i \in zero : h[i].rate.n > 0
        neg == \E i \in zero : h[i].rate.n < 0
    IN  IF nan \/ (pos /\ neg) THEN "NaN"
        ELSE IF pos THEN "Infinity"
        ELSE IF neg THEN "-Infinity"
        ELSE "finite"

\* avgTempDrop < n/d (d > 0)
AvgTempDropBelow(h, n, d) ==
    IF Len(h) > 0
    THEN CASE SumClass(h) = "NaN" -> FALSE
           [] SumClass(h) = "Infinity" -> FALSE
           [] SumClass(h) = "-Infinity" -> TRUE
           [] OTHER ->
                LET l == LcmN([i \in 1..Len(h) |-> h[i].rate.d], Len(h))
                    sum == SumN([i \in 1..Len(h) |->
                                    h[i].rate.n * (l \div h[i].rate.d)], Len(h))
                IN  d * sum < n * l * Len(h)
    ELSE 0 < n

\* fuelLevel as it would be if the duty history had to hold more than 11 samples
FuelLevel_LongerWarmUp(fanDutyHistory, tempDropHistory) ==
    IF Len(fanDutyHistory) > 11 /\ Len(tempDropHistory) > 5
    THEN IF AvgFanDutyAbove(fanDutyHistory, 60)
            /\ AvgTempDropBelow(tempDropHistory, -1, 2)
         THEN 20
         ELSE IF AvgFanDutyAbove(fanDutyHistory, 50)
                 /\ AvgTempDropBelow(tempDropHistory, -1, 5)
              THEN 40
              ELSE IF AvgFanDutyAbove(fanDutyHistory, 40) THEN 70 ELSE 100
    ELSE 100

\* fuelLevel, lines 2512-2523
FuelLevel(fanDutyHistory, tempDropHistory) ==
    IF Len(fanDutyHistory) > 10 /\ Len(tempDropHistory) > 5
    THEN IF AvgFanDutyAbove(fanDutyHistory, 60)
            /\ AvgTempDropBelow(tempDropHistory, -1, 2)
         THEN 20
         ELSE IF AvgFanDutyAbove(fanDutyHistory, 50)
                 /\ AvgTempDropBelow(tempDropHistory, -1, 5)
              THEN 40
              ELSE IF AvgFanDutyAbove(fanDutyHistory, 40) THEN 70 ELSE 100
    ELSE 100

\* showNotification as it would be called if the alerted flag were not consulted
ShowsLowFuelAlert_EveryUpdate(level, lowFuelAlerted) == level <= 20

\* lines 2531-2540: the update calls showNotification('Low Fuel Warning', ...)
ShowsLowFuelAlert(level, lowFuelAlerted) == level <= 20 /\ ~lowFuelAlerted

\* cutoff as it would be if 35 minutes were kept
Cutoff_ThirtyFiveMinutes(t) == t - (35 * 60 * 1000)

\* const cutoff = now - (30 * 60 * 1000)
Cutoff(t) == t - (30 * 60 * 1000)

\* the fan-duty filter as it would be if the entry at the cutoff were dropped
TrimFanDuty_Strict(history, cutoff) == SelectSeq(history, LAMBDA d : d.time > cutoff)

\* this.fuelMonitor.fanDutyHistory.filter(d => d.time >= cutoff)
TrimFanDuty(history, cutoff) == SelectSeq(history, LAMBDA d : d.time >= cutoff)

\* this.fuelMonitor.tempDropHistory.filter(d => d.time >= cutoff)
TrimTempDrop(history, cutoff) == SelectSeq(history, LAMBDA d : d.time >= cutoff)

\* updateFuelMonitor(data) called step ms after the update before it. An entry of
\* tempDropHistory also records the two temperatures its rate is the difference of.
UpdateFuelMonitor(data, step) ==
    LET t == now + step
        fm == fuelMonitor
        pushed == Append(fm.fanDutyHistory, [time |-> t, duty |-> FanDutyPercent(data)])
        sampled == fm.lastPitTemp # None /\ fm.lastCheckTime # None /\ data.pitTemp # 999
        timeDiff == ((t - fm.lastCheckTime[1]) \div 1000) \div 60
        tempDiff == data.pitTemp - fm.lastPitTemp[1]
        dropped == IF sampled
                   THEN Append(fm.tempDropHistory,
                               [time |-> t, rate |-> Frac(tempDiff, timeDiff),
                                of |-> <<fm.lastPitTemp[1], data.pitTemp>>])
                   ELSE fm.tempDropHistory
        cutoff == Cutoff(t)
        fanDutyHistory == TrimFanDuty(pushed, cutoff)
        tempDropHistory == TrimTempDrop(dropped, cutoff)
        level == FuelLevel(fanDutyHistory, tempDropHistory)
    IN  /\ now' = t
        /\ fuelMonitor' =
              [fanDutyHistory |-> fanDutyHistory,
               tempDropHistory |-> tempDropHistory,
               lastPitTemp |-> Some(data.pitTemp),
               lastCheckTime |-> Some(t),
               lowFuelAlerted |-> IF level <= 20 THEN TRUE
                                  ELSE IF level <= 40 THEN fm.lowFuelAlerted
                                  ELSE FALSE]
        /\ fuelLevel' = level
        /\ notified' = ShowsLowFuelAlert(level, fm.lowFuelAlerted)
        /\ alerts' = IF ShowsLowFuelAlert(level, fm.lowFuelAlerted)
                      THEN alerts + 1 ELSE alerts
        /\ updates' = updates + 1
        /\ reading' = Some(data)
        /\ UNCHANGED <<btVars, call, tempHistory, worker>>

\* any reading at any of the time steps, MaxUpdates times
FuelNext ==
    \E data \in Readings, step \in Steps :
        updates < MaxUpdates /\ UpdateFuelMonitor(data, step)

FuelSpec == Init /\ [][FuelNext]_vars

\* A stream: telemetry read once a minute with the fan at one manual speed throughout,
\* the first reading at StreamStarts and pit set off.
StreamFanSpeeds == {2, 3, 4, 5}
StreamStarts == {300}

\* the readings that may follow the stream so far, losing at most `most` and at least
\* `least` degrees since the reading before
StreamReadings(least, most) ==
    IF reading = None
    THEN [pitTemp : StreamStarts, pitSet : {0}, fanSpeed : StreamFanSpeeds]
    ELSE [pitTemp : (reading[1].pitTemp - most)..(reading[1].pitTemp - least),
          pitSet : {0}, fanSpeed : {reading[1].fanSpeed}]

\* every reading of the stream so far was one degree below the reading before it
SteadyDecline ==
    /\ reading # None
    /\ \E start \in StreamStarts : reading[1].pitTemp = start - (updates - 1)

\* the next minute of a stream whose pit holds its temperature or loses one degree
Minute ==
    \E data \in StreamReadings(0, 1) :
        updates < MaxMinutes /\ UpdateFuelMonitor(data, 60000)

\* the next minute of a stream that has declined one degree a minute from its start
\* and goes on doing so
DeclineMinute ==
    \E data \in StreamReadings(1, 1) :
        /\ updates >= MaxMinutes
        /\ updates <= DeclineMinutes
        /\ SteadyDecline
        /\ UpdateFuelMonitor(data, 60000)

StreamNext == Minute \/ DeclineMinute

StreamSpec == Init /\ [][StreamNext]_vars

\* ------------------------------------------ BBQBluetooth: command shortcuts
\* Each shortcut is the pair <<command, value>> it passes to sendCommand. The values a
\* caller passes in are integers; a flag parameter is true for every integer but 0.
Inputs == -3..MaxInput

\* setPitTemp as it would be with an upper limit of 500
setPitTemp_UpTo500(tempF) ==
    LET clamped == Max(150, Min(500, tempF))
        value == clamped - 145
    IN  <<1, value>>

setPitTemp(tempF) ==
    LET clamped == Max(150, Min(400, tempF))
        value == clamped - 145
    IN  <<1, value>>

\* setFood1Alarm as it would be without the upper limit
setFood1Alarm_NoUpperLimit(tempF) ==
    LET value == IF tempF = 0 THEN 0 ELSE Max(50, tempF)
    IN  <<2, value>>

setFood1Alarm(tempF) ==
    LET value == IF tempF = 0 THEN 0 ELSE Max(50, Min(250, tempF))
    IN  <<2, value>>

setFood2Alarm(tempF) ==
    LET value == IF tempF = 0 THEN 0 ELSE Max(50, Min(250, tempF))
    IN  <<3, value>>

setPitAlarm(tempF) ==
    LET value == IF tempF = 0 THEN 0 ELSE Max(20, Min(100, tempF))
    IN  <<4, value>>

setLidDetect(enabled) == <<5, IF enabled # 0 THEN 1 ELSE 0>>

\* setFanSpeed as it would be with seven manual speeds
setFanSpeed_SevenLevels(speed) ==
    LET value == Max(0, Min(7, speed))
    IN  <<6, value>>

setFanSpeed(speed) ==
    LET value == Max(0, Min(5, speed))
    IN  <<6, value>>

setTempUnits(fahrenheit) == <<7, IF fahrenheit # 0 THEN 0 ELSE 1>>

setSoundLevel(level) ==
    LET value == Max(0, Min(5, level))
    IN  <<8, value>>

\* setDisplayBrightness as it would be if level 0 were passed on
setDisplayBrightness_ZeroPassedOn(level) ==
    LET value == Max(0, Min(3, level))
    IN  <<9, value>>

setDisplayBrightness(level) ==
    LET value == Max(1, Min(3, level))
    IN  <<9, value>>

\* setDisplayBrightness: console.warn('Display brightness: device may ignore 0 (off);
\* sending 1 instead') is called
BrightnessWarns(level) == level = 0

setDelayTime(value15min) ==
    LET value == Max(0, Min(96, value15min))
    IN  <<10, value>>

\* setDelayPitSet as it would be without the test for 0 (off)
setDelayPitSet_WithoutOff(tempF) ==
    LET clamped == Max(150, Min(400, tempF))
    IN  <<11, clamped - 145>>

setDelayPitSet(tempF) ==
    IF tempF = 0 THEN <<11, 0>>
    ELSE LET clamped == Max(150, Min(400, tempF))
         IN  <<11, clamped - 145>>

setFood1TempTrigger(tempF) ==
    LET value == IF tempF = 0 THEN 0 ELSE Max(50, Min(250, tempF))
    IN  <<12, value>>

setFood1PitSet(tempF) ==
    IF tempF = 0 THEN <<13, 0>>
    ELSE LET clamped == Max(150, Min(400, tempF))
         IN  <<13, clamped - 145>>

setFood2TempTrigger(tempF) ==
    LET value == IF tempF = 0 THEN 0 ELSE Max(50, Min(250, tempF))
    IN  <<14, value>>

setFood2PitSet(tempF) ==
    IF tempF = 0 THEN <<15, 0>>
    ELSE LET clamped == Max(150, Min(400, tempF))
         IN  <<15, clamped - 145>>

Setters ==
    {"setPitTemp", "setFood1Alarm", "setFood2Alarm", "setPitAlarm", "setLidDetect",
     "setFanSpeed", "setTempUnits", "setSoundLevel", "setDisplayBrightness",
     "setDelayTime", "setDelayPitSet", "setFood1TempTrigger", "setFood1PitSet",
     "setFood2TempTrigger", "setFood2PitSet"}

\* bluetooth[setter](v): what the shortcut passes to sendCommand
Shortcut(setter, v) ==
    CASE setter = "setPitTemp" -> setPitTemp(v)
      [] setter = "setFood1Alarm" -> setFood1Alarm(v)
      [] setter = "setFood2Alarm" -> setFood2Alarm(v)
      [] setter = "setPitAlarm" -> setPitAlarm(v)
      [] setter = "setLidDetect" -> setLidDetect(v)
      [] setter = "setFanSpeed" -> setFanSpeed(v)
      [] setter = "setTempUnits" -> setTempUnits(v)
      [] setter = "setSoundLevel" -> setSoundLevel(v)
      [] setter = "setDisplayBrightness" -> setDisplayBrightness(v)
      [] setter = "setDelayTime" -> setDelayTime(v)
      [] setter = "setDelayPitSet" -> setDelayPitSet(v)
      [] setter = "setFood1TempTrigger" -> setFood1TempTrigger(v)
      [] setter = "setFood1PitSet" -> setFood1PitSet(v)
      [] setter = "setFood2TempTrigger" -> setFood2TempTrigger(v)
      [] setter = "setFood2PitSet" -> setFood2PitSet(v)

\* sendCommand: new Uint8Array([command, value])
CommandFrame(command, value) == <<command % 256, value % 256>>

\* ------------------------------------------- BBQBluetooth: telemetry decoder
\* handleTelemetry as it would be if the fan speed were masked with 0x0F
Telemetry_FanNibble(frame) ==
    LET byte9 == frame[9]
        byte14 == frame[14]
        byte15 == frame[15]
    IN  [pitAlarm |-> frame[0],
         delayTime |-> frame[1],
         delayPitSet |-> frame[2],
         pitTemp |-> frame[3] * 256 + frame[4],
         food1Temp |-> frame[5] * 256 + frame[6],
         food2Temp |-> frame[7] * 256 + frame[8],
         byte9 |-> byte9,
         pitSet |-> frame[10],
         food1Alarm |-> frame[11],
         food2Alarm |-> frame[12],
         fanDuty |-> frame[13],
         byte14 |-> byte14,
         byte15 |-> byte15,
         food1TempTrigger |-> frame[16],
         food1PitSet |-> frame[17],
         food2TempTrigger |-> frame[18],
         food2PitSet |-> frame[19],
         uptimeMin |-> (byte9 \div 16) % 16,
         lidDetect |-> (byte9 \div 8) % 2,
         fanSpeed |-> byte9 % 16,
         heartbeat |-> (byte14 \div 128) % 2,
         delayEnabled |-> byte14 % 2,
         flags |-> [unknown |-> byte15 % 2 # 0,
                    food1Enabled |-> (byte15 \div 2) % 2 # 0,
                    food2Enabled |-> (byte15 \div 4) % 2 # 0,
                    food1Done |-> (byte15 \div 8) % 2 # 0,
                    food2Done |-> (byte15 \div 16) % 2 # 0,
                    pitHot |-> (byte15 \div 32) % 2 # 0,
                    pitCold |-> (byte15 \div 64) % 2 # 0,
                    lidOpen |-> (byte15 \div 128) % 2 # 0]]

\* handleTelemetry as it would be with the masks of pitHot and pitCold exchanged
Telemetry_HotColdSwapped(frame) ==
    LET byte9 == frame[9]
        byte14 == frame[14]
        byte15 == frame[15]
    IN  [pitAlarm |-> frame[0],
         delayTime |-> frame[1],
         delayPitSet |-> frame[2],
         pitTemp |-> frame[3] * 256 + frame[4],
         food1Temp |-> frame[5] * 256 + frame[6],
         food2Temp |-> frame[7] * 256 + frame[8],
         byte9 |-> byte9,
         pitSet |-> frame[10],
         food1Alarm |-> frame[11],
         food2Alarm |-> frame[12],
         fanDuty |-> frame[13],
         byte14 |-> byte14,
         byte15 |-> byte15,
         food1TempTrigger |-> frame[16],
         food1PitSet |-> frame[17],
         food2TempTrigger |-> frame[18],
         food2PitSet |-> frame[19],
         uptimeMin |-> (byte9 \div 16) % 16,
         lidDetect |-> (byte9 \div 8) % 2,
         fanSpeed |-> byte9 % 8,
         heartbeat |-> (byte14 \div 128) % 2,
         delayEnabled |-> byte14 % 2,
         flags |-> [unknown |-> byte15 % 2 # 0,
                    food1Enabled |-> (byte15 \div 2) % 2 # 0,
                    food2Enabled |-> (byte15 \div 4) % 2 # 0,
                    food1Done |-> (byte15 \div 8) % 2 # 0,
                    food2Done |-> (byte15 \div 16) % 2 # 0,
                    pitHot |-> (byte15 \div 64) % 2 # 0,
                    pitCold |-> (byte15 \div 32) % 2 # 0,
                    lidOpen |-> (byte15 \div 128) % 2 # 0]]

\* handleTelemetry: the data object built from a 20-byte frame (a function on 0..19)
Telemetry(frame) ==
    LET byte9 == frame[9]
        byte14 == frame[14]
        byte15 == frame[15]
    IN  [pitAlarm |-> frame[0],
         delayTime |-> frame[1],
         delayPitSet |-> frame[2],
         pitTemp |-> frame[3] * 256 + frame[4],
         food1Temp |-> frame[5] * 256 + frame[6],
         food2Temp |-> frame[7] * 256 + frame[8],
         byte9 |-> byte9,
         pitSet |-> frame[10],
         food1Alarm |-> frame[11],
         food2Alarm |-> frame[12],
         fanDuty |-> frame[13],
         byte14 |-> byte14,
         byte15 |-> byte15,
         food1TempTrigger |-> frame[16],
         food1PitSet |-> frame[17],
         food2TempTrigger |-> frame[18],
         food2PitSet |-> frame[19],
         uptimeMin |-> (byte9 \div 16) % 16,
         lidDetect |-> (byte9 \div 8) % 2,
         fanSpeed |-> byte9 % 8,
         heartbeat |-> (byte14 \div 128) % 2,
         delayEnabled |-> byte14 % 2,
         flags |-> [unknown |-> byte15 % 2 # 0,
                    food1Enabled |-> (byte15 \div 2) % 2 # 0,
                    food2Enabled |-> (byte15 \div 4) % 2 # 0,
                    food1Done |-> (byte15 \div 8) % 2 # 0,
                    food2Done |-> (byte15 \div 16) % 2 # 0,
                    pitHot |-> (byte15 \div 32) % 2 # 0,
                    pitCold |-> (byte15 \div 64) % 2 # 0,
                    lidOpen |-> (byte15 \div 128) % 2 # 0]]

\* the frames the channel delivers here: byte i is b, every other byte is 0
FrameWith(i, b) == [k \in 0..(FrameLength - 1) |-> IF k = i THEN b ELSE 0]

\* the byte of the telemetry frame that reports what a pit-set shortcut has set
PitSetByte ==
    [setter \in {"setPitTemp", "setDelayPitSet", "setFood1PitSet", "setFood2PitSet"} |->
        CASE setter = "setPitTemp" -> 10
          [] setter = "setDelayPitSet" -> 2
          [] setter = "setFood1PitSet" -> 17
          [] setter = "setFood2PitSet" -> 19]

\* ------------------------------------------------ BBQApp: pit-set consumers
\* updateTemperature('pit', temp, target): the target shown (0: 'No target')
ShownPitTarget(target) == IF target > 0 THEN target + 145 ELSE 0

\* the pit dial's currentValue
DialPitTarget(data) == IF data.pitSet # 0 THEN data.pitSet + 145 ELSE 225

\* updateProgrammingCard: the delay / food 1 / food 2 pit set shown (0: 'Off')
ShownProgrammedPitSet(raw) == IF raw = 0 THEN 0 ELSE raw + 145

\* checkAlarms: const targetTemp = data.pitSet - 145
AlarmTargetTemp(data) == data.pitSet - 145

\* ----------------------------------------------------------- codec actions
\* The codec functions are pure, so a behaviour looks at one call: a shortcut (and the
\* frame that reports its argument back) or the decoding of one frame.
\* a caller calls a command shortcut with v: the frame sendCommand builds from what the
\* shortcut passes it, and whether the shortcut warned
Command(setter, v) ==
    /\ call = None
    /\ call' = Some([fn |-> setter, input |-> v,
                      frame |-> CommandFrame(Shortcut(setter, v)[1], Shortcut(setter, v)[2]),
                      warned |-> setter = "setDisplayBrightness" /\ BrightnessWarns(v)])
    /\ UNCHANGED <<btVars, fuelVars, tempHistory, worker>>

\* the channel delivers a frame and handleTelemetry decodes it
Decode(i, b) ==
    /\ call = None
    /\ call' = Some([fn |-> "handleTelemetry", sent |-> None,
                      frame |-> FrameWith(i, b), data |-> Telemetry(FrameWith(i, b))])
    /\ UNCHANGED <<btVars, fuelVars, tempHistory, worker>>

\* the frame that follows a pit-set command and reports the argument just sent in the
\* byte of that setting
Echo ==
    /\ call # None
    /\ call[1].fn \in DOMAIN PitSetByte
    /\ LET frame == FrameWith(PitSetByte[call[1].fn], call[1].frame[2])
       IN  call' = Some([fn |-> "handleTelemetry",
                         sent |-> Some([fn |-> call[1].fn, input |-> call[1].input]),
                         frame |-> frame, data |-> Telemetry(frame)])
    /\ UNCHANGED <<btVars, fuelVars, tempHistory, worker>>

CodecNext ==
    \/ \E setter \in Setters, v \in Inputs : Command(setter, v)
    \/ \E i \in 0..(FrameLength - 1), b \in 0..255 : Decode(i, b)
    \/ Echo

CodecSpec == Init /\ [][CodecNext]_vars

\* ------------------------------------------------------- BBQApp: handlers
\* The message of the error a rejected write is rethrown with is kept as the set of
\* the substrings handleWriteError looks for that it includes.
ErrorTokens == {"GATT", "disconnect", "auth", "Security", "not paired"}
ErrorMessages == SUBSET ErrorTokens

\* err.message.includes(token)
Includes(message, token) == token \in message

\* handleWriteError(err, actionName): the toast shown. err is None for an error without
\* a message, Some(message) otherwise.
HandleWriteError(err) ==
    IF err # None
    THEN IF Includes(err[1], "GATT") \/ Includes(err[1], "disconnect")
         THEN "failed - device disconnected. Will auto-reconnect..."
         ELSE IF Includes(err[1], "auth") \/ Includes(err[1], "Security")
                 \/ Includes(err[1], "not paired")
              THEN "failed - device needs pairing. Accept the Windows pairing dialog and try again."
              ELSE "Failed to"
    ELSE "Failed to"

\* a shortcut's promise rejects with the error sendCommand rethrew, and the caller's
\* catch hands it to handleWriteError
WriteFailed(err) ==
    /\ call = None
    /\ call' = Some([fn |-> "handleWriteError", input |-> err,
                      toast |-> HandleWriteError(err)])
    /\ UNCHANGED <<btVars, fuelVars, tempHistory, worker>>

\* the readings checkAlarms is given: the fields it reads
AlarmReadings ==
    [food1Alarm : {0, 50}, food1Temp : {100, 999}, food2Alarm : {0, 50},
     food2Temp : {100, 999}, pitAlarm : {0, 20}, pitTemp : {80, 999},
     pitSet : {0, 80, 255}]

\* checkAlarms as it would be without the 999 test on the food 1 probe
CheckAlarms_Food1Unguarded(data) ==
    (IF data.food1Alarm > 0 /\ data.food1Temp >= data.food1Alarm
     THEN {"Food 1 Ready!"} ELSE {})
    \cup (IF data.food2Alarm > 0 /\ data.food2Temp # 999
              /\ data.food2Temp >= data.food2Alarm
           THEN {"Food 2 Ready!"} ELSE {})
    \cup (IF data.pitAlarm > 0 /\ data.pitTemp # 999 /\ data.pitSet > 0
              /\ data.pitTemp < AlarmTargetTemp(data) - data.pitAlarm
           THEN {"Pit Temperature Low"} ELSE {})

\* checkAlarms(data): the titles of the notifications it shows
CheckAlarms(data) ==
    (IF data.food1Alarm > 0 /\ data.food1Temp # 999
        /\ data.food1Temp >= data.food1Alarm
     THEN {"Food 1 Ready!"} ELSE {})
    \cup (IF data.food2Alarm > 0 /\ data.food2Temp # 999
              /\ data.food2Temp >= data.food2Alarm
           THEN {"Food 2 Ready!"} ELSE {})
    \cup (IF data.pitAlarm > 0 /\ data.pitTemp # 999 /\ data.pitSet > 0
              /\ data.pitTemp < AlarmTargetTemp(data) - data.pitAlarm
           THEN {"Pit Temperature Low"} ELSE {})

\* handleTelemetryData calls checkAlarms(data)
AlarmsChecked(data) ==
    /\ call = None
    /\ call' = Some([fn |-> "checkAlarms", input |-> data,
                      notifications |-> CheckAlarms(data)])
    /\ UNCHANGED <<btVars, fuelVars, tempHistory, worker>>

\* what addToHistory pushes for a probe: null for 999
Point(temp) == IF temp = 999 THEN None ELSE Some(temp)

\* the readings addToHistory is given, one every 10 seconds: the fields it reads. Each
\* probe stays connected or disconnected as it was at the reading before.
HistoryReadings ==
    {data \in [pitTemp : {80, 999}, food1Temp : {100, 999}, food2Temp : {100, 999}] :
        LET n == Len(tempHistory.timestamps)
        IN  n > 0 => /\ Point(data.pitTemp) = tempHistory.pit[n]
                     /\ Point(data.food1Temp) = tempHistory.food1[n]
                     /\ Point(data.food2Temp) = tempHistory.food2[n]}

\* addToHistory as it would be if, at the bound, the point before the new one were
\* dropped
AddToHistory_PreviousDropped(data) ==
    LET n == Len(tempHistory.timestamps)
        t == (IF n = 0 THEN 0 ELSE tempHistory.timestamps[n]) + 10000
        pushed == [timestamps |-> Append(tempHistory.timestamps, t),
                   pit |-> Append(tempHistory.pit, Point(data.pitTemp)),
                   food1 |-> Append(tempHistory.food1, Point(data.food1Temp)),
                   food2 |-> Append(tempHistory.food2, Point(data.food2Temp))]
    IN  /\ tempHistory' =
              IF Len(pushed.timestamps) > MaxDataPoints
              THEN [timestamps |-> Append(SubSeq(pushed.timestamps, 1, n - 1), t),
                    pit |-> Append(SubSeq(pushed.pit, 1, n - 1), Point(data.pitTemp)),
                    food1 |-> Append(SubSeq(pushed.food1, 1, n - 1),
                                     Point(data.food1Temp)),
                    food2 |-> Append(SubSeq(pushed.food2, 1, n - 1),
                                     Point(data.food2Temp))]
              ELSE pushed
        /\ UNCHANGED <<btVars, fuelVars, call, worker>>

\* addToHistory(data), called 10 seconds after the call before it
AddToHistory(data) ==
    LET n == Len(tempHistory.timestamps)
        t == (IF n = 0 THEN 0 ELSE tempHistory.timestamps[n]) + 10000
        pushed == [timestamps |-> Append(tempHistory.timestamps, t),
                   pit |-> Append(tempHistory.pit, Point(data.pitTemp)),
                   food1 |-> Append(tempHistory.food1, Point(data.food1Temp)),
                   food2 |-> Append(tempHistory.food2, Point(data.food2Temp))]
    IN  /\ tempHistory' =
              IF Len(pushed.timestamps) > MaxDataPoints
              THEN [timestamps |-> Tail(pushed.timestamps),
                    pit |-> Tail(pushed.pit),
                    food1 |-> Tail(pushed.food1),
                    food2 |-> Tail(pushed.food2)]
              ELSE pushed
        /\ UNCHANGED <<btVars, fuelVars, call, worker>>

\* verifyCommand(cmd, arg) with this.currentData the latest reading, if any: TRUE
\* (verified), FALSE (not verified) or null (not verifiable)
VerifyCommand(currentData, cmd, arg) ==
    IF currentData = None THEN None
    ELSE LET data == currentData[1]
         IN  CASE cmd = 1 -> Some(data.pitSet = arg)
               [] cmd = 2 -> Some(data.food1Alarm = arg)
               [] cmd = 3 -> Some(data.food2Alarm = arg)
               [] cmd = 4 -> Some(data.pitAlarm = arg)
               [] cmd = 5 -> Some(data.lidDetect = arg)
               [] cmd = 6 -> Some(data.fanSpeed = arg)
               [] cmd \in {7, 8, 9} -> None
               [] cmd = 10 -> Some(data.delayTime = arg)
               [] cmd = 11 -> Some(data.delayPitSet = arg)
               [] cmd = 12 -> Some(data.food1TempTrigger = arg)
               [] cmd = 13 -> Some(data.food1PitSet = arg)
               [] cmd = 14 -> Some(data.food2TempTrigger = arg)
               [] cmd = 15 -> Some(data.food2PitSet = arg)
               [] OTHER -> None

\* handleWriteEcho(cmd, arg): the text it puts next to the echoed command
HandleWriteEcho(currentData, cmd, arg) ==
    LET verified == VerifyCommand(currentData, cmd, arg)
    IN  IF verified = Some(TRUE) THEN "(verified)"
        ELSE IF verified = Some(FALSE) THEN "(not verified)"
        ELSE "(not verifiable)"

\* the readings this.currentData may hold when handleWriteEcho runs: none yet, or a
\* reading with one byte of the frame set
CurrentData ==
    {None} \cup {Some(Telemetry(FrameWith(i, b))) : i \in 0..(FrameLength - 1), b \in {1, 5}}

\* the function the app installs as onWriteEchoCallback is called with (cmd, arg)
WriteEchoed(currentData, cmd, arg) ==
    /\ call = None
    /\ call' = Some([fn |-> "handleWriteEcho", cmd |-> cmd, arg |-> arg,
                      currentData |-> currentData,
                      shown |-> HandleWriteEcho(currentData, cmd, arg)])
    /\ UNCHANGED <<btVars, fuelVars, tempHistory, worker>>

\* A behaviour looks at one handler: a rejected write, an echoed command, an alarm
\* check (of the first reading, before or after handleTelemetryData has put it into
\* the history), or the history of a run of up to MaxReadings readings.
HandlerNext ==
    \/ \E err \in {None} \cup {Some(message) : message \in ErrorMessages} :
          tempHistory = NewTempHistory /\ WriteFailed(err)
    \/ \E data \in AlarmReadings :
          /\ Len(tempHistory.timestamps) <= 1
          /\ Len(tempHistory.timestamps) = 1 =>
                /\ tempHistory.pit[1] = Point(data.pitTemp)
                /\ tempHistory.food1[1] = Point(data.food1Temp)
                /\ tempHistory.food2[1] = Point(data.food2Temp)
          /\ AlarmsChecked(data)
    \/ \E currentData \in CurrentData, cmd \in 1..16, arg \in {0, 1, 5} :
          tempHistory = NewTempHistory /\ WriteEchoed(currentData, cmd, arg)
    \/ \E data \in HistoryReadings :
          /\ call = None
          /\ IF tempHistory.timestamps = <<>> THEN TRUE
             ELSE tempHistory.timestamps[Len(tempHistory.timestamps)]
                     < MaxReadings * 10000
          /\ AddToHistory(data)

HandlerSpec == Init /\ [][HandlerNext]_vars

\* ------------------------------------------------------------ service worker
\* The cache bbq-controller-v7 is the set of URLs it holds a response for. A step of the
\* worker is an event handler up to the promise it waits for, or the settling of that
\* promise; whether the network answers is the environment's choice at each fetch.

\* the requests the page makes: the precached URLs, a navigation to the directory, and
\* a file that is not precached
Requests == urlsToCache \cup {"./", "icon-192.png"}

\* a response: where it came from and the URL whose content it carries
Response(from, url) == Some([from |-> from, url |-> url])

\* 'install': skipWaiting(), then waitUntil(caches.open(..).then(cache.addAll(..)))
InstallEvent ==
    /\ worker.phase = "registered"
    /\ worker' = [worker EXCEPT !.phase = "installing"]
    /\ UNCHANGED <<btVars, fuelVars, call, tempHistory>>

\* cache.addAll settles: it stores all the URLs, or (a fetch of one of them failed or
\* was not ok) stores none and rejects; .catch logs the error, so the promise given to
\* waitUntil is fulfilled either way and the install completes
AddAllSettled(ok) ==
    /\ worker.phase = "installing"
    /\ worker' = [phase |-> "installed",
                  cache |-> IF ok THEN worker.cache \cup urlsToCache ELSE worker.cache]
    /\ UNCHANGED <<btVars, fuelVars, call, tempHistory>>

\* 'activate': caches with another name are deleted, clients are claimed
ActivateEvent ==
    /\ worker.phase = "installed"
    /\ worker' = [worker EXCEPT !.phase = "activated"]
    /\ UNCHANGED <<btVars, fuelVars, call, tempHistory>>

\* caches.match(request).then(response => response || caches.match('index.html'))
CacheMatch(cache, request) ==
    IF request \in cache THEN Response("cache", request)
    ELSE IF "index.html" \in cache THEN Response("cache", "index.html")
    ELSE None

\* 'fetch' (dispatched to the active worker): network first; a 200 response is put into
\* the cache; when the network fails the cache answers, and respondWith(undefined) is
\* a network error for the page
FetchEvent(request, online, status) ==
    /\ worker.phase = "activated"
    /\ worker' = [worker EXCEPT !.cache =
                     IF online /\ status = 200 THEN @ \cup {request} ELSE @]
    /\ call' = Some([fn |-> "fetch", request |-> request, online |-> online,
                      response |-> IF online THEN Response("network", request)
                                   ELSE CacheMatch(worker.cache, request)])
    /\ UNCHANGED <<btVars, fuelVars, tempHistory>>

WorkerNext ==
    \/ InstallEvent
    \/ \E ok \in BOOLEAN : AddAllSettled(ok)
    \/ ActivateEvent
    \/ \E request \in Requests, online \in BOOLEAN, status \in {200, 404} :
          FetchEvent(request, online, status)

WorkerSpec == Init /\ [][WorkerNext]_vars


\* ================================================================ claims
\* C1: when disconnect() ran while a connect() was in flight (the only cycle there has
\* been), the connected flag is false once that connect() has returned.
C1_DisconnectDuringConnect ==
    (last.op = "connect returned" /\ last.flag /\ InFlight = 0 /\ listeners <= 1) =>
        ~bt.connected

\* C2: an unsolicited disconnect event while Connected surfaces the reconnecting
\* status and schedules exactly one reconnect; a reconnect makes exactly one
\* channel-open attempt and leaves the session Connected when it succeeds and
\* Disconnected when it fails.
C2_DropThenReconnect ==
    /\ (last.op = "drop" /\ last.flag) =>
            /\ last.res = "reconnect scheduled"
            /\ Len(timers) = last.n + 1
            /\ bt.status = "connecting"
            /\ bt.message = "Reconnecting..."
    /\ (last.op = "reconnect returned" /\ last.res = "ok") =>
            (bt.connected /\ bt.status = "connected" /\ last.n = 1)
    /\ (last.op = "reconnect returned" /\ last.res = "failed") =>
            (~bt.connected /\ bt.status = "disconnected" /\ last.n = 1)

\* C3: at most one connect() or reconnect() that has its device is in flight at any
\* time (a stronger statement, counting a connect() still at the device chooser too,
\* fails sooner).
C3_OneCycleInFlight ==
    LET past == {pr \in Active : pr.pc # "requestDevice"}
    IN  BagCardinality([pr \in past |-> procs[pr]]) <= 1

\* C4: a connect() calls the channel-open primitive at most 3 times, once per attempt
\* and never after an attempt succeeded; it waits out a backoff only after a failed
\* attempt that leaves retries; and when its retries are used up it returns false with
\* the session Disconnected and the error of the third attempt surfaced.
C4_RetryLoop ==
    /\ \A pr \in Active :
            pr.kind = "connect" =>
                /\ pr.opens <= 3
                /\ pr.opens <= (3 - pr.retries) + (IF pr.pc = "backoff" THEN 0 ELSE 1)
                /\ pr.pc = "backoff" => (pr.retries \in 1..2 /\ pr.lastError # Null)
                /\ pr.pc \notin {"requestDevice", "gattConnect", "backoff"} =>
                        pr.retries > 0
    /\ last.op = "connect returned" => last.n <= 3
    /\ (last.op = "connect returned" /\ last.m = 0) =>
            /\ last.res = "failed"
            /\ ~bt.connected
            /\ bt.status = "disconnected"
            /\ bt.message \in {"open failed 3", "TypeError 3"}

\* C5: disconnect() called while Connected leaves the session Disconnected, and the
\* gattserverdisconnected event it provokes schedules no reconnect, whether it is
\* dispatched inside disconnect() or from the queue afterwards.
C5_IntentionalDisconnect ==
    /\ (last.op = "disconnect" /\ last.flag) =>
            /\ ~bt.connected
            /\ bt.status = "disconnected"
            /\ bt.device = Null
            /\ bt.server = Null
            /\ bt.service = Null
            /\ bt.telemetryChar = Null
            /\ bt.writeChar = Null
            /\ Len(timers) = last.n
    /\ last.op = "queued event" => (last.res = "no reconnect" /\ Len(timers) = last.n)

C5_Witness ==
    /\ last.op = "disconnect"
    /\ last.flag
    /\ last.res = "sync"
    /\ listeners > 0

\* C6: when the reconnect attempt fails (no later connect() having reached the
\* device) the session is Disconnected, the error status
\* is surfaced, the device is forgotten and no reconnect is left in flight or
\* scheduled.
C6_ReconnectFailed ==
    (last.op = "reconnect returned" /\ last.res = "failed" /\ listeners = 1) =>
        /\ ~bt.connected
        /\ bt.status = "disconnected"
        /\ bt.message = "Reconnect failed - click Connect"
        /\ bt.device = Null
        /\ \A pr \in Active : pr.kind # "reconnect"

\* C7: when disconnect() ran while the reconnect timer was pending or reconnect() was
\* suspended, the reconnect ends with the session Disconnected and the channel
\* closed, no later connect() having reached the device.
C7_DisconnectDuringReconnect ==
    (last.op = "reconnect returned" /\ last.flag /\ listeners = 1) =>
        (~bt.connected /\ ~gattConnected)

\* C8: sendCommand called while not connected, or with no write characteristic,
\* throws 'Not connected to device', starts no write and changes nothing.
C8_NotConnected ==
    [][(last'.op = "sendCommand" /\ (~bt.connected \/ bt.writeChar = Null)) =>
          /\ last'.res = "Not connected to device"
          /\ UNCHANGED <<bt, gattConnected, listeners, handlers, pendingEvent, procs,
                         timers, writes>>]_vars

C8_Witness ==
    /\ last.op = "sendCommand"
    /\ last.res = "Not connected to device"
    /\ bt.connected
    /\ bt.writeChar = Null

\* C9: a buffer whose length is not 20 is dropped: no reading reaches the data
\* subscriber and the session is unchanged.
C9_MalformedFrameDropped ==
    [][(last'.op = "frame" /\ last'.m # 20) =>
          /\ last'.n = 0
          /\ last'.res = "dropped"
          /\ UNCHANGED <<bt, gattConnected, listeners, handlers, pendingEvent, procs,
                         timers, writes>>]_vars

C9_Witness ==
    /\ last.op = "frame"
    /\ last.m = 21
    /\ last.res = "dropped"
    /\ bt.connected

\* C10: no entry of the temp-drop history is a difference in which the previous or the
\* current pit temperature is the sentinel 999.
C10_SentinelNeverSampled ==
    \A i \in 1..Len(fuelMonitor.tempDropHistory) :
        /\ fuelMonitor.tempDropHistory[i].of[1] # 999
        /\ fuelMonitor.tempDropHistory[i].of[2] # 999


\* C11: after every estimator update the reported fuel level is 100 unless the pruned
\* fan-duty history holds at least 11 samples and the pruned drop history at least 6;
\* with both it is 20 if the mean duty is above 60 and the mean drop below -0.5, else
\* 40 if the mean duty is above 50 and the mean drop below -0.2, else 70 if the mean
\* duty is above 40, else 100.
C11_Classification ==
    updates > 0 =>
        LET duty == fuelMonitor.fanDutyHistory
            drop == fuelMonitor.tempDropHistory
        IN  fuelLevel =
              IF Len(duty) >= 11 /\ Len(drop) >= 6
              THEN IF AvgFanDutyAbove(duty, 60) /\ AvgTempDropBelow(drop, -1, 2)
                   THEN 20
                   ELSE IF AvgFanDutyAbove(duty, 50) /\ AvgTempDropBelow(drop, -1, 5)
                        THEN 40
                        ELSE IF AvgFanDutyAbove(duty, 40) THEN 70 ELSE 100
              ELSE 100

\* an update with both histories long enough that classified the level as 40
C11_Witness ==
    /\ updates > 0
    /\ Len(fuelMonitor.fanDutyHistory) >= 11
    /\ Len(fuelMonitor.tempDropHistory) >= 6
    /\ fuelLevel = 40

\* C12: an estimator update emits the low-fuel alert whenever it takes the classified
\* level from a value above 20 to a value of 20 or below, and after any update whose
\* level is above 20 the alerted flag is clear (so that levels 20, 40, 20 emit two
\* alerts).
C12_AlertOnEveryTransition ==
    [][updates' = updates + 1 =>
          /\ (fuelLevel > 20 /\ fuelLevel' <= 20 => notified')
          /\ (fuelLevel' > 20 => ~fuelMonitor'.lowFuelAlerted)]_vars

C14_AutoDutySample ==
    reading # None /\ reading[1].fanSpeed = 0 =>
        LET data == reading[1]
            h == fuelMonitor.fanDutyHistory
            targetF == data.pitSet + 145
        IN  h[Len(h)].duty =
              IF data.pitTemp # 999 /\ data.pitSet # 0
              THEN Frac(Max(0, Min(100, 2 * (targetF - data.pitTemp) + 30)), 1)
              ELSE Frac(0, 1)

\* C15: for every target x in 150..400 and every pit-set shortcut (opcodes 0x01, 0x0B,
\* 0x0D, 0x0F) the argument byte sent is x - 145, and the telemetry frame that carries
\* this byte in the setting's position is decoded and read by every consumer as target
\* x again: by the pit display, the pit dial, the fuel estimator and the pit alarm check
\* for the pit set, by the programming card for the other three.
C15_PitSetRoundTrip ==
    (/\ call # None
     /\ call[1].fn = "handleTelemetry"
     /\ call[1].sent # None
     /\ call[1].sent[1].input \in 150..400)
    => LET x == call[1].sent[1].input
           setter == call[1].sent[1].fn
           data == call[1].data
       IN  /\ call[1].frame[PitSetByte[setter]] = x - 145
           /\ setter = "setPitTemp" =>
                 /\ ShownPitTarget(data.pitSet) = x
                 /\ DialPitTarget(data) = x
                 /\ FuelTargetTemp(data) = x
                 /\ AlarmTargetTemp(data) = x
           /\ setter = "setDelayPitSet" => ShownProgrammedPitSet(data.delayPitSet) = x
           /\ setter = "setFood1PitSet" => ShownProgrammedPitSet(data.food1PitSet) = x
           /\ setter = "setFood2PitSet" => ShownProgrammedPitSet(data.food2PitSet) = x

\* C16: for every shortcut and every integer input v, the command frame produced for v
\* is the frame produced for v clamped to the setting's accepted range (the range of the
\* opcode table, 0 passing through where the table has "0 or"); for a v inside the
\* range this is the frame of v itself.
C16_ClampedFrame ==
    (call # None /\ call[1].fn \in Setters) =>
        LET setter == call[1].fn
            v == call[1].input
            pitSets == {"setPitTemp", "setDelayPitSet", "setFood1PitSet", "setFood2PitSet"}
            foods == {"setFood1Alarm", "setFood2Alarm", "setFood1TempTrigger",
                      "setFood2TempTrigger"}
            lo == CASE setter \in pitSets -> 150
                    [] setter \in foods -> 50
                    [] setter = "setPitAlarm" -> 20
                    [] setter = "setDisplayBrightness" -> 1
                    [] OTHER -> 0
            hi == CASE setter \in pitSets -> 400
                    [] setter \in foods -> 250
                    [] setter = "setPitAlarm" -> 100
                    [] setter \in {"setLidDetect", "setTempUnits"} -> 1
                    [] setter \in {"setFanSpeed", "setSoundLevel"} -> 5
                    [] setter = "setDisplayBrightness" -> 3
                    [] setter = "setDelayTime" -> 96
            zeroPasses == (pitSets \ {"setPitTemp"}) \cup foods \cup {"setPitAlarm"}
            clamped == IF setter \in zeroPasses /\ v = 0 THEN 0 ELSE Max(lo, Min(hi, v))
        IN  call[1].frame =
               CommandFrame(Shortcut(setter, clamped)[1], Shortcut(setter, clamped)[2])

C20_Byte9Fields ==
    (call # None /\ call[1].fn = "handleTelemetry") =>
        LET b == call[1].frame[9]
            data == call[1].data
        IN  /\ data.uptimeMin = b \div 16
            /\ data.lidDetect = (b \div 8) % 2
            /\ data.fanSpeed = b % 8
            /\ data.uptimeMin * 16 + data.lidDetect * 8 + data.fanSpeed = b

\* the frame whose byte 9 is 0xFD: uptime 15, lid detect on, fan speed 5
C20_Witness ==
    /\ call # None
    /\ call[1].fn = "handleTelemetry"
    /\ call[1].frame[9] = 253
    /\ call[1].data.uptimeMin = 15
    /\ call[1].data.lidDetect = 1
    /\ call[1].data.fanSpeed = 5

\* C21: for every value of telemetry bytes 14 and 15, heartbeat is bit 7 of byte 14,
\* delayEnabled is bit 0 of byte 14, and the flags food1Enabled, food2Enabled,
\* food1Done, food2Done, pitHot, pitCold, lidOpen are true exactly when bit 1, 2, 3, 4,
\* 5, 6, 7 of byte 15 is set; no flag depends on any other bit.
C21_StatusAndFlagBits ==
    (call # None /\ call[1].fn = "handleTelemetry") =>
        LET b14 == call[1].frame[14]
            b15 == call[1].frame[15]
            data == call[1].data
            bit(b, i) == (b \div (2 ^ i)) % 2
        IN  /\ data.heartbeat = bit(b14, 7)
            /\ data.delayEnabled = bit(b14, 0)
            /\ data.flags.food1Enabled <=> bit(b15, 1) = 1
            /\ data.flags.food2Enabled <=> bit(b15, 2) = 1
            /\ data.flags.food1Done <=> bit(b15, 3) = 1
            /\ data.flags.food2Done <=> bit(b15, 4) = 1
            /\ data.flags.pitHot <=> bit(b15, 5) = 1
            /\ data.flags.pitCold <=> bit(b15, 6) = 1
            /\ data.flags.lidOpen <=> bit(b15, 7) = 1

\* the frame whose byte 15 is 0xA1: lid open and pit over temperature, bit 0 set, and
\* no other flag raised
C21_Witness ==
    /\ call # None
    /\ call[1].fn = "handleTelemetry"
    /\ call[1].frame[15] = 161
    /\ call[1].data.flags.lidOpen
    /\ call[1].data.flags.pitHot
    /\ ~call[1].data.flags.pitCold
    /\ ~call[1].data.flags.food1Enabled

C23_AuthorizationCategory ==
    (/\ call # None
     /\ call[1].fn = "handleWriteError"
     /\ call[1].input # None
     /\ call[1].input[1] \cap {"auth", "Security", "not paired"} # {})
    => call[1].toast =
          "failed - device needs pairing. Accept the Windows pairing dialog and try again."

\* C24: telemetry frames are handled one after the other in the order of delivery, and
\* the timestamps the fuel estimator assigns to successive readings are strictly
\* increasing: every estimator update after the first is stamped later than the update
\* before it.
C24_TimestampsIncrease ==
    [][updates > 0 /\ updates' = updates + 1 => now' > now]_vars

\* C25: a probe reading of 999 never raises an alarm and is never stored as a number:
\* checkAlarms shows no food-ready notification for a food probe at 999 and no pit-low
\* notification for a pit probe at 999, whatever the alarm settings, and addToHistory
\* stores a null point for it.
C25_Disconnected999 ==
    /\ [](call # None /\ call[1].fn = "checkAlarms" =>
            LET data == call[1].input
                shown == call[1].notifications
            IN  /\ data.food1Temp = 999 => "Food 1 Ready!" \notin shown
                /\ data.food2Temp = 999 => "Food 2 Ready!" \notin shown
                /\ data.pitTemp = 999 => "Pit Temperature Low" \notin shown)
    /\ [][\A data \in HistoryReadings :
            AddToHistory(data) =>
               LET m == Len(tempHistory'.timestamps)
               IN  /\ data.pitTemp = 999 => tempHistory'.pit[m] = None
                   /\ data.food1Temp = 999 => tempHistory'.food1[m] = None
                   /\ data.food2Temp = 999 => tempHistory'.food2[m] = None]_vars
    /\ [](\A i \in 1..Len(tempHistory.timestamps) :
            /\ tempHistory.pit[i] # Some(999)
            /\ tempHistory.food1[i] # Some(999)
            /\ tempHistory.food2[i] # Some(999))

\* all three probes read 999 with every alarm set: the reading is in the history as
\* three null points and checkAlarms has shown nothing
C25_Witness ==
    /\ call # None /\ call[1].fn = "checkAlarms"
    /\ call[1].input.food1Temp = 999 /\ call[1].input.food1Alarm > 0
    /\ call[1].input.food2Temp = 999 /\ call[1].input.food2Alarm > 0
    /\ call[1].input.pitTemp = 999 /\ call[1].input.pitAlarm > 0
    /\ call[1].input.pitSet > 0
    /\ call[1].notifications = {}
    /\ Len(tempHistory.timestamps) = 1
    /\ tempHistory.pit[1] = None /\ tempHistory.food1[1] = None
    /\ tempHistory.food2[1] = None

\* C26: after any number of readings the four temperature-history arrays (timestamps,
\* pit, food1, food2) have the same length, that length never exceeds 720, and a
\* reading added to a history of 720 points discards the oldest point: every other
\* point moves down by one place and the new point is the last.
C26_HistoryBound ==
    /\ [](/\ Len(tempHistory.pit) = Len(tempHistory.timestamps)
          /\ Len(tempHistory.food1) = Len(tempHistory.timestamps)
          /\ Len(tempHistory.food2) = Len(tempHistory.timestamps)
          /\ Len(tempHistory.timestamps) <= MaxDataPoints)
    /\ [][Len(tempHistory.timestamps) = MaxDataPoints /\ tempHistory' # tempHistory =>
            /\ \A i \in 1..(MaxDataPoints - 1) :
                  /\ tempHistory'.timestamps[i] = tempHistory.timestamps[i + 1]
                  /\ tempHistory'.pit[i] = tempHistory.pit[i + 1]
                  /\ tempHistory'.food1[i] = tempHistory.food1[i + 1]
                  /\ tempHistory'.food2[i] = tempHistory.food2[i + 1]
            /\ tempHistory'.timestamps[MaxDataPoints]
                  > tempHistory.timestamps[MaxDataPoints]]_vars

\* 722 readings were added: the history holds 720 points and the two oldest are gone
C26_Witness ==
    /\ Len(tempHistory.timestamps) = MaxDataPoints
    /\ tempHistory.timestamps[1] = 30000
    /\ tempHistory.timestamps[MaxDataPoints] = 7220000

\* C27: once the install event has completed, a fetch of a precached URL while the
\* network is failing is answered from the cache with that URL's response, and any
\* other request is answered with the cached index.html.
C27_OfflineAfterInstall ==
    call # None /\ call[1].fn = "fetch" /\ ~call[1].online =>
        call[1].response =
            Response("cache", IF call[1].request \in urlsToCache
                              THEN call[1].request ELSE "index.html")

\* C28: the optional pit-set encoders (opcodes 0x0B, 0x0D, 0x0F) pass input 0 through
\* as argument 0 (off) and clamp every other integer input to 150..400 before
\* subtracting 145: the transmitted argument is 0 or in 5..255, and it is 0 only when the
\* input is 0.
C28_OptionalPitSet ==
    call # None /\ call[1].fn \in {"setDelayPitSet", "setFood1PitSet", "setFood2PitSet"} =>
        LET input == call[1].input
            opcode == CASE call[1].fn = "setDelayPitSet" -> 11
                        [] call[1].fn = "setFood1PitSet" -> 13
                        [] call[1].fn = "setFood2PitSet" -> 15
            argument == call[1].frame[2]
        IN  /\ call[1].frame[1] = opcode
            /\ input = 0 => argument = 0
            /\ input # 0 => argument = Max(150, Min(400, input)) - 145
            /\ argument = 0 \/ argument \in 5..255
            /\ argument = 0 => input = 0

\* an input above 400 and an input below 150, 0 apart, are sent as 255 and as 5
C28_Witness ==
    /\ call # None /\ call[1].fn = "setDelayPitSet"
    /\ \/ call[1].input = 401 /\ call[1].frame = <<11, 255>>
       \/ call[1].input = -1 /\ call[1].frame = <<11, 5>>

\* C29: after every estimator update, performed at time now, every entry of the fan-duty
\* history and of the temp-drop history has a timestamp t with
\* now - 30 minutes <= t <= now, and the fan-duty history is not empty.
C29_HistoryWindow ==
    updates > 0 =>
        /\ \A i \in 1..Len(fuelMonitor.fanDutyHistory) :
              /\ now - 1800000 <= fuelMonitor.fanDutyHistory[i].time
              /\ fuelMonitor.fanDutyHistory[i].time <= now
        /\ \A i \in 1..Len(fuelMonitor.tempDropHistory) :
              /\ now - 1800000 <= fuelMonitor.tempDropHistory[i].time
              /\ fuelMonitor.tempDropHistory[i].time <= now
        /\ Len(fuelMonitor.fanDutyHistory) > 0
        /\ fuelMonitor.fanDutyHistory[Len(fuelMonitor.fanDutyHistory)].time = now

\* more than 31 updates a minute apart: the oldest entries have been pruned, the entry
\* that is exactly 30 minutes old is kept
C29_Witness ==
    /\ updates > 31
    /\ Len(fuelMonitor.fanDutyHistory) = 31
    /\ fuelMonitor.fanDutyHistory[1].time = now - 1800000
    /\ Len(fuelMonitor.tempDropHistory) = 31
    /\ fuelMonitor.tempDropHistory[1].time = now - 1800000

\* C30: after a successful send the outcome is verified against telemetry: once the
\* write of a command has succeeded, handleWriteEcho has run for that command and shows
\* what verifyCommand found for it.
C30_SendVerified ==
    last.op = "write" /\ last.res = "ok" =>
        /\ call # None
        /\ call[1].fn = "handleWriteEcho"
        /\ call[1].cmd = last.n
        /\ call[1].shown = HandleWriteEcho(call[1].currentData, call[1].cmd, call[1].arg)

\* C31: the intentional-disconnect flag is false whenever the session is Connected and
\* no disconnect() is executing (its channel event, if any, has been dispatched); so an
\* unsolicited drop of a Connected session that still has its device schedules the
\* reconnect, whatever disconnect() calls came before the session was connected.
C31_IntentFlagCleared ==
    /\ bt.connected /\ ~pendingEvent => ~bt.intentionalDisconnect
    /\ last.op = "drop" /\ last.flag /\ bt.device # Null =>
          last.res = "reconnect scheduled"

\* C32: the status surfaced to observers agrees with the session: whenever the last
\* status passed to the status callback is 'disconnected' the connected flag is false
\* and sendCommand fails with the not-connected error, and whenever it is 'connected'
\* the connected flag is true.
C32_StatusAgrees ==
    /\ bt.status = "disconnected" => ~bt.connected /\ NotConnected(bt)
    /\ bt.status = "connected" => bt.connected

\* C33: whenever the session settles in Disconnected (a connect() or reconnect() has
\* returned failed, or disconnect() has returned, and nothing is in flight or pending)
\* no channel is left open and the server, service and endpoint handles are cleared.
C33_NoChannelLeftOpen ==
    /\ bt.status = "disconnected"
    /\ last.op \in {"connect returned", "reconnect returned", "disconnect"}
    /\ last.op # "disconnect" => last.res = "failed"
    /\ InFlight = 0 /\ timers = <<>> /\ ~pendingEvent
    => /\ ~gattConnected
       /\ bt.server = Null /\ bt.service = Null
       /\ bt.telemetryChar = Null /\ bt.writeChar = Null

\* C34: each 20-byte frame the channel delivers is published to the data subscriber
\* exactly once.
C34_PublishedOnce ==
    last.op = "frame" /\ last.m = FrameLength => last.n = 1

\* C35: at most one auto-reconnect timer is pending at any time, one unsolicited drop
\* schedules at most one reconnect however many times the disconnect handler is
\* registered, and reconnect() never starts while the session is Connected.
C35_NoRedundantReconnect ==
    /\ Len(timers) <= 1
    /\ last.op = "drop" => Len(timers) <= last.n + 1
    /\ last.op = "reconnect called" => ~bt.connected

\* C36: checkAlarms shows the pit-temperature-low notification exactly when the pit
\* alarm is not 0, the pit probe is connected (not 999), the pit set is not 0 and
\* pitTemp < targetF - pitAlarm, targetF being the pit target the temperature display
\* shows (raw pit-set byte + 145).
C36_PitLowAlarm ==
    call # None /\ call[1].fn = "checkAlarms" =>
        LET data == call[1].input
            targetF == ShownPitTarget(data.pitSet)
        IN  "Pit Temperature Low" \in call[1].notifications
            <=> /\ data.pitAlarm > 0
                /\ data.pitTemp # 999
                /\ data.pitSet > 0
                /\ data.pitTemp < targetF - data.pitAlarm

\* C37: in every estimator state the temp-drop history is not longer than the fan-duty
\* history, and every timestamp in the temp-drop history is the timestamp of an entry of
\* the fan-duty history.
C37_DropWithinDuty ==
    /\ Len(fuelMonitor.tempDropHistory) <= Len(fuelMonitor.fanDutyHistory)
    /\ \A i \in 1..Len(fuelMonitor.tempDropHistory) :
          \E j \in 1..Len(fuelMonitor.fanDutyHistory) :
              fuelMonitor.fanDutyHistory[j].time = fuelMonitor.tempDropHistory[i].time

\* both histories hold the last 31 minutes: the oldest entries have been filtered out of
\* both
C37_Witness ==
    /\ updates > 32
    /\ Len(fuelMonitor.tempDropHistory) = 31
    /\ Len(fuelMonitor.fanDutyHistory) = 31
    /\ fuelMonitor.tempDropHistory[1].time = now - 1800000

\* C38: for every integer input to every command encoder the transmitted frame has
\* exactly 2 bytes and the argument handed to sendCommand is an integer in 0..255, so
\* the byte transmitted is that argument: nothing wraps (the largest pit-set argument is
\* 400 - 145 = 255).
C38_ArgumentIsAByte ==
    call # None /\ call[1].fn \in Setters =>
        LET sent == Shortcut(call[1].fn, call[1].input)
        IN  /\ Len(call[1].frame) = 2
            /\ sent[2] \in 0..255
            /\ call[1].frame = sent

\* the largest argument: a pit target of 400 or more is transmitted as 255
C38_Witness ==
    /\ call # None /\ call[1].fn = "setPitTemp"
    /\ call[1].input > 400
    /\ call[1].frame = <<1, 255>>

\* C39: every drop-rate sample in the temp-drop history was computed over a strictly
\* positive elapsed time, so its rate is a finite number (no division by zero).
C39_FiniteDropRate ==
    \A i \in 1..Len(fuelMonitor.tempDropHistory) :
        fuelMonitor.tempDropHistory[i].rate.d > 0

====
